---- MODULE Spec2Model ----
(***************************************************************************)
(* BeatDroid-Flask: the poster composer (poster.py, class Poster) as a     *)
(* state machine.  Every track()/album() invocation is a process that      *)
(* walks the lines of its method; the file system is the only state the    *)
(* invocations share.  Text is a sequence of one-character strings, a path *)
(* is a record [abs, parts] as pathlib parses it.  The later sections add  *)
(* the lyrics and Spotify lookups (spotify.py) and the Flask application   *)
(* (app.py): its routes, error handlers, login and get_poster endpoints.   *)
(***************************************************************************)
EXTENDS Integers, Sequences, FiniteSets, TLC

VARIABLES
    pc,        \* pc[i]: the line of track()/album() invocation i is at
    call,      \* call[i]: the arguments of invocation i
    loc,       \* loc[i]: the local variables of invocation i
    result,    \* result[i]: what invocation i returned or raised
    io,        \* io[i]: the external operations invocation i has attempted, in order
    fs,        \* the file system: directories and files
    pk,        \* the track-list packer applied to a drawn input
    ly,        \* the lyrics stage of the track-poster endpoint
    gt,        \* a lookup of the metadata provider: Spotify.get_track / get_album
    srv,       \* the application: its start, its environment and app.config
    db,        \* the devices table
    req        \* req[r]: the request handler r is serving

vars == <<pc, call, loc, result, io, fs, pk, ly, gt, srv, db, req>>

\* the state of the web application (app.py, spotify.py)
web == <<ly, gt, srv, db, req>>

\* the state of the composer's invocations and of the packer
composer == <<pc, call, loc, result, io, pk>>

(***************************************************************************)
(* Bounds of the model.                                                    *)
(***************************************************************************)
NumInv == 2          \* invocations that may run concurrently
NumReq == 2          \* requests the application may serve concurrently
NumChunks == 2       \* write() calls one poster.save() is split into
MaxTracks == 5       \* longest track list drawn for the packer
MaxCap == 3          \* largest column capacity drawn for the packer

Procs == 1 .. NumInv
Reqs == 1 .. NumReq

(***************************************************************************)
(* Options: None is <<>>, a value v is <<v>>.                              *)
(***************************************************************************)
None == <<>>
Some(v) == <<v>>
IsSome(o) == o # <<>>
Get(o) == o[1]

(***************************************************************************)
(* Text helpers.                                                           *)
(***************************************************************************)
RECURSIVE SeqSum(_)
SeqSum(s) == IF s = <<>> THEN 0 ELSE s[1] + SeqSum(Tail(s))

Max(a, b) == IF a >= b THEN a ELSE b

RECURSIVE Count(_, _)
Count(s, e) == IF s = <<>> THEN 0 ELSE (IF s[1] = e THEN 1 ELSE 0) + Count(Tail(s), e)

Contains(s, e) == \E k \in 1 .. Len(s) : s[k] = e

(***************************************************************************)
(* pathlib.  Path(s) parses a string: a leading "/" makes it absolute,     *)
(* empty and "." components are dropped, ".." is kept until resolve().     *)
(***************************************************************************)
RECURSIVE SplitSep(_)
SplitSep(s) ==
    IF s = <<>> THEN << <<>> >>
    ELSE LET rest == SplitSep(Tail(s)) IN
         IF s[1] = "/" THEN << <<>> >> \o rest
         ELSE << <<s[1]>> \o rest[1] >> \o Tail(rest)

IsDropped(c) == c = <<>> \/ c = <<".">>
KeepPart(c) == ~IsDropped(c)

Path(s) ==
    [abs |-> (s # <<>> /\ s[1] = "/"), parts |-> SelectSeq(SplitSep(s), KeepPart)]

HOME == << <<"h">> >>
CWD == << <<"w">> >>

expanduser(p) ==
    IF ~p.abs /\ p.parts # <<>> /\ p.parts[1] = <<"~">>
    THEN [abs |-> TRUE, parts |-> HOME \o Tail(p.parts)]
    ELSE p

RECURSIVE Normalize(_, _)
Normalize(done, todo) ==
    IF todo = <<>> THEN done
    ELSE IF todo[1] = <<".", ".">>
         THEN Normalize(IF done = <<>> THEN <<>> ELSE SubSeq(done, 1, Len(done) - 1),
                        Tail(todo))
         ELSE Normalize(Append(done, todo[1]), Tail(todo))

resolve(p) ==
    [abs |-> TRUE,
     parts |-> Normalize(<<>>, IF p.abs THEN p.parts ELSE CWD \o p.parts)]

\* p / s with s a string: an absolute s replaces p
PathJoin(p, s) ==
    LET q == Path(s) IN
    IF q.abs THEN q ELSE [abs |-> p.abs, parts |-> p.parts \o q.parts]

RECURSIVE JoinParts(_)
JoinParts(parts) ==
    IF parts = <<>> THEN <<>>
    ELSE IF Len(parts) = 1 THEN parts[1]
    ELSE parts[1] \o <<"/">> \o JoinParts(Tail(parts))

\* str(p)
PathStr(p) ==
    IF p.abs THEN <<"/">> \o JoinParts(p.parts)
    ELSE IF p.parts = <<>> THEN <<".">> ELSE JoinParts(p.parts)

\* the file the operating system opens for p: ".." is followed
FsKey(p) == resolve(p).parts

Parent(k) == IF k = <<>> THEN <<>> ELSE SubSeq(k, 1, Len(k) - 1)

Ancestors(k) == { SubSeq(k, 1, n) : n \in 0 .. Len(k) }


(***************************************************************************)
(* The BeatPrints collaborators poster.py imports (consts, utils, image).  *)
(***************************************************************************)
THEMES == {"Light", "Dark"}

\* image.get_theme: the (color, template) pair of a theme
get_theme(theme) ==
    IF theme = "Light" THEN [color |-> "black", template |-> "light.png"]
    ELSE IF theme = "Dark" THEN [color |-> "white", template |-> "dark.png"]
    ELSE [color |-> "?", template |-> "?"]

\* image.cover: the override, when given, takes precedence over the metadata's image
cover(image, custom_cover) ==
    IF IsSome(custom_cover) THEN Get(custom_cover) ELSE image

\* image.scannable: the code of a catalog id, tinted by the theme
scannable(id, theme, is_album) ==
    <<id, theme, IF is_album THEN "album" ELSE "track">>

\* characters that may not appear in a file name
UnsafeChars == {"/", "\\", ":", "*", "?", "<", ">", "|", " "}

SanitizeChar(c) == IF c \in UnsafeChars THEN "_" ELSE c

sanitize(s) == [k \in 1 .. Len(s) |-> SanitizeChar(s[k])]

EXT == <<".", "p", "n", "g">>

\* utils.filename: <sanitized-name>_<sanitized-artist>.<ext>
filename(name, artist) == sanitize(name) \o <<"_">> \o sanitize(artist) \o EXT

\* regions of the template and sizes (consts)
C_COVER == <<1, 1>>
C_SPOTIFY_CODE == <<1, 6>>
C_PALETTE == <<1, 5>>
C_HEADING == <<1, 7>>
C_ARTIST == <<1, 8>>
C_LABEL == <<9, 7>>
C_DURATION == <<9, 8>>
C_LYRICS == <<1, 9>>
C_TRACKS == <<1, 9>>
S_SPACING == 2
S_MAX_ROWS == 2

\* the measured width of a line: one unit a character
get_width(line) == Len(line)

Digits == <<"0", "1", "2", "3", "4", "5", "6", "7", "8", "9">>

\* f"{n:02d}"
Pad2(n) == Digits[(n \div 10) + 1] \o Digits[(n % 10) + 1]

IndexLinePerColumn(tracks, k, cap) == Pad2(((k - 1) % cap) + 1) \o ". " \o tracks[k]

\* the line of track k: its 1-based position in the album, padded, then the name
IndexLine(tracks, k, cap) == Pad2(k) \o ". " \o tracks[k]

PackLines(tracks, indexed, cap) ==
    [k \in 1 .. Len(tracks) |->
        IF indexed THEN IndexLine(tracks, k, cap) ELSE tracks[k]]

\* lines are appended to the current column; a full column starts the next
RECURSIVE PackColumns(_, _, _)
PackColumns(cols, lines, cap) ==
    IF lines = <<>> THEN cols
    ELSE IF cols = <<>> \/ Len(cols[Len(cols)]) >= cap
         THEN PackColumns(Append(cols, <<lines[1]>>), Tail(lines), cap)
         ELSE PackColumns([cols EXCEPT ![Len(cols)] = Append(@, lines[1])],
                          Tail(lines), cap)

RECURSIVE MaxWidth(_)
MaxWidth(col) ==
    IF col = <<>> THEN 0 ELSE Max(get_width(col[1]), MaxWidth(Tail(col)))

\* the packer: (columns, column widths)
pack(tracks, indexed, cap) ==
    LET cols == PackColumns(<<>>, PackLines(tracks, indexed, cap), cap) IN
    [columns |-> cols, widths |-> [k \in 1 .. Len(cols) |-> MaxWidth(cols[k])]]

\* utils.organize_tracks
organize_tracks(tracks, indexing) == pack(tracks, indexing, S_MAX_ROWS)

UpperChar(c) ==
    CASE c = "a" -> "A" [] c = "b" -> "B" [] c = "e" -> "E" [] OTHER -> c

\* str.upper
upper(s) == [k \in 1 .. Len(s) |-> UpperChar(s[k])]


(***************************************************************************)
(* The arguments invocations are called with.                              *)
(***************************************************************************)
TrackNames == { <<"A">>, <<"A", "/", "B", ":", " ", "T">>, <<"/", "e">> }
ArtistNames == { <<"X">>, <<"a", "/", "b">> }
TrackLists == { <<>>, <<"A">>, <<"A", "Bbb", "C", "Dd", "E">> }
SaveDirs == { None, Some(<<>>), Some(<<"/", "o">>), Some(<<"q", "/", ".", ".", "/", "r">>) }
ThemeNames == { "Light", "Dark", "Neon" }
CustomCovers == { None, Some("custom.png") }
LyricsTexts == { <<"line1", "line2">>, <<"No lyrics available">> }

Metadata(name, artist, tracks) ==
    [name |-> name, artist |-> artist, released |-> "June 09, 2017",
     duration |-> "04:50", image |-> "cover.jpg", label |-> "Label",
     id |-> "id1", tracks |-> tracks]

TrackCalls ==
    { [kind |-> "track", md |-> Metadata(n, a, <<>>), lyrics |-> lt, save_dir |-> sd,
       indexing |-> FALSE, accent |-> ac, theme |-> th, custom_cover |-> cc] :
        n \in TrackNames, a \in ArtistNames, lt \in LyricsTexts, sd \in SaveDirs,
        ac \in BOOLEAN, th \in ThemeNames, cc \in CustomCovers }

AlbumCalls ==
    { [kind |-> "album", md |-> Metadata(n, a, tl), lyrics |-> <<>>, save_dir |-> sd,
       indexing |-> ix, accent |-> ac, theme |-> th, custom_cover |-> cc] :
        n \in TrackNames, a \in ArtistNames, tl \in TrackLists, sd \in SaveDirs,
        ix \in BOOLEAN, ac \in BOOLEAN, th \in ThemeNames, cc \in CustomCovers }

Calls == TrackCalls \cup AlbumCalls

\* the calls of the concurrent runs: a track in both themes (one output path, two
\* posters) and an album of another name
ConcCalls ==
    { c \in Calls :
        /\ c.md.artist = <<"X">>
        /\ c.save_dir = None
        /\ ~c.indexing /\ ~c.accent
        /\ c.theme \in THEMES
        /\ c.custom_cover = None
        /\ \/ c.kind = "track" /\ c.md.name = <<"A">> /\ c.lyrics = <<"line1", "line2">>
           \/ /\ c.kind = "album" /\ c.md.name = <<"/", "e">> /\ c.md.tracks = <<"A">>
              /\ c.theme = "Light" }

NoCall ==
    [kind |-> "none", md |-> Metadata(<<>>, <<>>, <<>>), lyrics |-> <<>>,
     save_dir |-> None, indexing |-> FALSE, accent |-> FALSE, theme |-> "",
     custom_cover |-> None]

(***************************************************************************)
(* Poster.__init__(save_to): the default directory, made at construction.  *)
(***************************************************************************)
SAVE_TO_ARG == <<"/", "d">>

save_to == resolve(expanduser(Path(SAVE_TO_ARG)))

NoLocals ==
    [color |-> None, template |-> None, cover |-> None, scannable |-> None,
     opened |-> FALSE, canvas |-> <<>>, drawn |-> FALSE, save_path |-> None,
     poster_path |-> None, created |-> FALSE, fd |-> 0, off |-> 0, saved |-> FALSE]

NoResult == [kind |-> "none", val |-> <<>>]
Raised(e) == [kind |-> "raise", val |-> <<e>>]
Returned(v) == [kind |-> "return", val |-> v]

NoFiles == [k \in {} |-> <<>>]

NoPack == [tracks |-> <<>>, indexed |-> FALSE, cap |-> 1, done |-> FALSE,
           out |-> [columns |-> <<>>, widths |-> <<>>]]

\* Python values, as far as the endpoints tell them apart
PyStr(s) == [t |-> "str", v |-> s, items |-> <<>>]
PyInt(digits) == [t |-> "int", v |-> digits, items |-> <<>>]
PyNone == [t |-> "none", v |-> <<>>, items |-> <<>>]
PyList(xs) == [t |-> "list", v |-> <<>>, items |-> xs]

\* what a call gave: a value, or an exception
Gave(x) == [kind |-> "return", val |-> x, exc |-> ""]
Threw(e) == [kind |-> "raise", val |-> PyNone, exc |-> e]

NoLyrics == [outcome |-> Gave(PyNone), pc |-> "idle", lyrics |-> <<>>, exc |-> ""]

NoLookup ==
    [op |-> "none", pc |-> "idle", query |-> <<>>, limit |-> 1, calls |-> 0,
     log |-> <<>>, cause |-> "", result |-> Gave(PyNone)]

\* a JSON response
Resp(status, error) ==
    [status |-> status, success |-> status < 400, error |-> error, token |-> None,
     is_new |-> FALSE, image |-> <<>>, warning |-> FALSE, filePath |-> <<>>]

\* a JSON body without any of the keys the poster endpoints read
NoData == [track_name |-> None, artist_name |-> None, theme |-> None, accent |-> None]

NoRequest ==
    [path |-> "", arg |-> None, authed |-> FALSE, pc |-> "idle", exc |-> "", token |-> None,
     key |-> <<>>, content |-> <<>>, data |-> NoData, resp |-> Resp(0, "")]

\* app.config.update({... "DOWNLOAD_DIR": ...}), lines 190-200
CONFIG == "DOWNLOAD_DIR" :> Some(SAVE_TO_ARG)

\* the application imported, with both Spotify credentials in the environment
Running ==
    [phase |-> "running", env |-> [id |-> Some("id"), secret |-> Some("secret")],
     config |-> CONFIG, raised |-> ""]

\* db.create_all(): an empty devices table
NoDevices == [devices |-> NoFiles]

\* the application up, no request in progress
AppIdle ==
    /\ srv = Running
    /\ db = NoDevices
    /\ req = [r \in Reqs |-> NoRequest]

\* no request in the web application
WebIdle ==
    /\ ly = NoLyrics
    /\ gt = NoLookup
    /\ AppIdle

\* no invocation of the composer
PosterIdle ==
    /\ pc = [i \in Procs |-> "idle"]
    /\ call = [i \in Procs |-> NoCall]
    /\ loc = [i \in Procs |-> NoLocals]
    /\ result = [i \in Procs |-> NoResult]
    /\ io = [i \in Procs |-> <<>>]
    /\ pk = NoPack

\* os.makedirs of the download directory, no file in it
NoPosters == [dirs |-> Ancestors(save_to.parts), files |-> NoFiles, data |-> NoFiles]

Init ==
    /\ PosterIdle
    /\ fs = NoPosters
    /\ WebIdle

\* the caller enters track() or album() with arguments c
Call(i, c) ==
    /\ pc[i] = "idle"
    /\ pc' = [pc EXCEPT ![i] = "theme_check"]
    /\ call' = [call EXCEPT ![i] = c]
    /\ UNCHANGED <<loc, result, io, fs, pk, web>>

\* raise e: the invocation ends, nothing else changes
Raise(i, e) ==
    /\ pc' = [pc EXCEPT ![i] = "done"]
    /\ result' = [result EXCEPT ![i] = Raised(e)]

Goto(i, l) == pc' = [pc EXCEPT ![i] = l]

Attempt(i, op) == io' = [io EXCEPT ![i] = Append(@, op)]

CheckThemeSkipped(i) ==
    /\ pc[i] = "theme_check"
    /\ Goto(i, "get_theme")
    /\ UNCHANGED <<call, loc, result, io, fs, pk, web>>

\* if theme not in THEMES: raise ThemeNotFoundError
CheckTheme(i) ==
    /\ pc[i] = "theme_check"
    /\ IF call[i].theme \notin THEMES
       THEN Raise(i, "ThemeNotFoundError")
       ELSE Goto(i, "get_theme") /\ UNCHANGED result
    /\ UNCHANGED <<call, loc, io, fs, pk, web>>

\* color, template = image.get_theme(theme)
GetTheme(i) ==
    /\ pc[i] = "get_theme"
    /\ LET t == get_theme(call[i].theme) IN
       loc' = [loc EXCEPT ![i].color = Some(t.color), ![i].template = Some(t.template)]
    /\ Goto(i, "cover")
    /\ UNCHANGED <<call, result, io, fs, pk, web>>

\* cover = image.cover(metadata.image, custom_cover)
CoverOk(i) ==
    /\ pc[i] = "cover"
    /\ Attempt(i, "cover")
    /\ loc' = [loc EXCEPT ![i].cover =
                  Some(cover(call[i].md.image, call[i].custom_cover))]
    /\ Goto(i, "scannable")
    /\ UNCHANGED <<call, result, fs, pk, web>>

CoverFailSwallowed(i) ==
    /\ pc[i] = "cover"
    /\ Attempt(i, "cover")
    /\ Goto(i, "scannable")
    /\ UNCHANGED <<call, loc, result, fs, pk, web>>

\* neither source could be loaded: image.cover raises
CoverFail(i) ==
    /\ pc[i] = "cover"
    /\ Attempt(i, "cover")
    /\ Raise(i, "CoverUnavailable")
    /\ UNCHANGED <<call, loc, fs, pk, web>>

\* scannable = image.scannable(metadata.id, theme[, is_album=True])
ScannableOk(i) ==
    /\ pc[i] = "scannable"
    /\ Attempt(i, "scannable")
    /\ loc' = [loc EXCEPT ![i].scannable =
                  Some(scannable(call[i].md.id, call[i].theme, call[i].kind = "album"))]
    /\ Goto(i, "open_template")
    /\ UNCHANGED <<call, result, fs, pk, web>>

ScannableFail(i) ==
    /\ pc[i] = "scannable"
    /\ Attempt(i, "scannable")
    /\ Raise(i, "ScannableError")
    /\ UNCHANGED <<call, loc, fs, pk, web>>

\* with Image.open(template) as poster
OpenTemplateOk(i) ==
    /\ pc[i] = "open_template"
    /\ Attempt(i, "template")
    /\ loc' = [loc EXCEPT ![i].opened = TRUE]
    /\ Goto(i, "draw")
    /\ UNCHANGED <<call, result, fs, pk, web>>

OpenTemplateFail(i) ==
    /\ pc[i] = "open_template"
    /\ Attempt(i, "template")
    /\ Raise(i, "TemplateError")
    /\ UNCHANGED <<call, loc, fs, pk, web>>


(***************************************************************************)
(* Drawing, in memory, on the invocation's own canvas.                     *)
(***************************************************************************)
DrawOp(op, at, what) == [op |-> op, at |-> at, what |-> what]

\* poster.paste(cover, C_COVER); poster.paste(scannable, C_SPOTIFY_CODE, scannable);
\* image.draw_palette(draw, cover, accent)
PasteOps(l, c) ==
    << DrawOp("cover", C_COVER, <<Get(l.cover)>>),
       DrawOp("scannable", C_SPOTIFY_CODE, Get(l.scannable)),
       DrawOp("palette", C_PALETTE,
              <<Get(l.cover), IF c.accent THEN "accent" ELSE "plain">>) >>

\* Poster._add_common_text: heading, artist, release date and label
CommonText(md, color) ==
    << DrawOp("heading", C_HEADING, <<color>> \o upper(md.name)),
       DrawOp("artist", C_ARTIST, <<color>> \o md.artist),
       DrawOp("label", C_LABEL, <<color, md.released, md.label>>) >>

\* write.text(draw, C_DURATION, metadata.duration, ...); write.text(draw, C_LYRICS, lyrics, ...)
TrackText(c, color) ==
    << DrawOp("duration", C_DURATION, <<color, c.md.duration>>),
       DrawOp("lyrics", C_LYRICS, <<color>> \o c.lyrics) >>

ColumnAdvanceNoGap(x, column_width) == x + column_width

\* x += column_width + S_SPACING
ColumnAdvance(x, column_width) == x + column_width + S_SPACING

\* for track_column, column_width in zip(tracklist, track_widths): write.text(draw, (x, y), ...)
RECURSIVE DrawColumns(_, _, _, _, _)
DrawColumns(tracklist, track_widths, x, y, color) ==
    IF tracklist = <<>> \/ track_widths = <<>> THEN <<>>
    ELSE << DrawOp("tracks", <<x, y>>, <<color>> \o tracklist[1]) >>
         \o DrawColumns(Tail(tracklist), Tail(track_widths),
                        ColumnAdvance(x, track_widths[1]), y, color)

\* a variant that draws the first column without looking whether there is one
AlbumTextAlwaysDraws(c, color) ==
    LET packed == organize_tracks(c.md.tracks, c.indexing) IN
    IF packed.columns = <<>>
    THEN << DrawOp("tracks", C_TRACKS, <<color>>) >>
    ELSE DrawColumns(packed.columns, packed.widths, C_TRACKS[1], C_TRACKS[2], color)

\* tracklist, track_widths = organize_tracks(metadata.tracks, indexing); x, y = C_TRACKS
AlbumText(c, color) ==
    LET packed == organize_tracks(c.md.tracks, c.indexing) IN
    DrawColumns(packed.columns, packed.widths, C_TRACKS[1], C_TRACKS[2], color)

Compose(l, c) ==
    PasteOps(l, c) \o CommonText(c.md, Get(l.color))
    \o (IF c.kind = "album" THEN AlbumText(c, Get(l.color)) ELSE TrackText(c, Get(l.color)))

DrawOk(i) ==
    /\ pc[i] = "draw"
    /\ loc' = [loc EXCEPT ![i].canvas = Compose(loc[i], call[i]), ![i].drawn = TRUE]
    /\ Goto(i, "mkdir")
    /\ UNCHANGED <<call, result, io, fs, pk, web>>

\* a variant that commits what was drawn so far before it raises
DrawFailSavesPartial(i) ==
    LET sp == resolve(expanduser(save_to))
        key == sp.parts \o <<sanitize(call[i].md.name)>> IN
    /\ pc[i] = "draw"
    /\ Raise(i, "DrawError")
    /\ io' = [io EXCEPT ![i] = Append(@, "save")]
    /\ fs' = [fs EXCEPT !.files = (key :> 1) @@ @,
                        !.data = (1 :> <<[img |-> loc[i].canvas, part |-> 1]>>) @@ @]
    /\ UNCHANGED <<call, loc, pk, web>>

\* a drawing step raises (a font cannot be loaded, the text cannot be drawn)
DrawFail(i) ==
    /\ pc[i] = "draw"
    /\ Raise(i, "DrawError")
    /\ UNCHANGED <<call, loc, io, fs, pk, web>>

(***************************************************************************)
(* The save directory and the save.                                        *)
(***************************************************************************)
\* a non-empty string is true
Truthy(o) == IF IsSome(o) THEN Get(o) # <<>> ELSE FALSE

SavePathDefaultOnly(c) == resolve(expanduser(save_to))

\* Path(save_dir or self.save_to).expanduser().resolve()
SavePath(c) ==
    resolve(expanduser(IF Truthy(c.save_dir) THEN Path(Get(c.save_dir)) ELSE save_to))

PosterNameRaw(c) == c.md.name \o <<"_">> \o c.md.artist \o EXT

\* name = filename(metadata.name, metadata.artist)
PosterName(c) == filename(c.md.name, c.md.artist)

\* poster_path = save_path / name
PosterPath(save_path, c) == PathJoin(save_path, PosterName(c))

IsFile(k) == k \in DOMAIN fs.files

\* save_path.mkdir(parents=True, exist_ok=True)
MkdirOk(i) ==
    LET sp == SavePath(call[i]) IN
    /\ pc[i] = "mkdir"
    /\ \A a \in Ancestors(sp.parts) : ~IsFile(a)
    /\ Attempt(i, "mkdir")
    /\ loc' = [loc EXCEPT ![i].save_path = Some(sp)]
    /\ fs' = [fs EXCEPT !.dirs = @ \cup Ancestors(sp.parts)]
    /\ Goto(i, "save")
    /\ UNCHANGED <<call, result, pk, web>>

\* except OSError: log and raise
MkdirFail(i) ==
    /\ pc[i] = "mkdir"
    /\ Attempt(i, "mkdir")
    /\ loc' = [loc EXCEPT ![i].save_path = Some(SavePath(call[i]))]
    /\ Raise(i, "OSError")
    /\ UNCHANGED <<call, fs, pk, web>>

\* the bytes of a poster, in NumChunks pieces
Chunk(canvas, k) == [img |-> canvas, part |-> k]
Hole == [img |-> <<>>, part |-> 0]
Encoded(canvas) == [k \in 1 .. NumChunks |-> Chunk(canvas, k)]

\* a variant that opens every file in append mode: each piece goes to the end
WriteAppend(content, pos, chunk) == Append(content, chunk)

\* write at a position of the file: past the end leaves a hole
WriteAt(content, pos, chunk) ==
    IF pos <= Len(content) THEN [content EXCEPT ![pos] = chunk]
    ELSE content \o [k \in 1 .. (pos - Len(content) - 1) |-> Hole] \o <<chunk>>

FreshInode == CHOOSE n \in 1 .. (Cardinality(DOMAIN fs.data) + 1) : n \notin DOMAIN fs.data

\* poster.save(poster_path) opens the file for writing: created or truncated
SaveOpenOk(i) ==
    LET pp == PosterPath(Get(loc[i].save_path), call[i])
        key == FsKey(pp)
        ino == IF IsFile(key) THEN fs.files[key] ELSE FreshInode IN
    /\ pc[i] = "save"
    /\ Parent(key) \in fs.dirs
    /\ key \notin fs.dirs
    /\ Attempt(i, "save")
    /\ loc' = [loc EXCEPT ![i].poster_path = Some(pp), ![i].created = ~IsFile(key),
                          ![i].fd = ino, ![i].off = 0]
    /\ fs' = [fs EXCEPT !.files = (key :> ino) @@ @, !.data = (ino :> <<>>) @@ @]
    /\ Goto(i, "write")
    /\ UNCHANGED <<call, result, pk, web>>

\* except Exception: log and raise
SaveOpenFail(i) ==
    LET pp == PosterPath(Get(loc[i].save_path), call[i]) IN
    /\ pc[i] = "save"
    /\ Attempt(i, "save")
    /\ loc' = [loc EXCEPT ![i].poster_path = Some(pp)]
    /\ Raise(i, "SaveFailed")
    /\ UNCHANGED <<call, fs, pk, web>>

\* a variant that writes through whichever file some invocation opened last
SaveWriteSharedHandle(i) ==
    LET k == loc[i].off + 1 IN
    /\ pc[i] = "write"
    /\ \E j \in Procs :
          /\ loc[j].fd # 0
          /\ fs' = [fs EXCEPT !.data[loc[j].fd] =
                       WriteAt(@, k, [img |-> loc[i].canvas, part |-> k])]
    /\ loc' = [loc EXCEPT ![i].off = k, ![i].saved = (k = NumChunks)]
    /\ Goto(i, IF k = NumChunks THEN "return" ELSE "write")
    /\ UNCHANGED <<call, result, io, pk, web>>

\* a variant that saves again after the last piece
SaveWriteTwice(i) ==
    LET k == loc[i].off + 1 IN
    /\ pc[i] = "write"
    /\ fs' = [fs EXCEPT !.data[loc[i].fd] = WriteAt(@, k, [img |-> loc[i].canvas, part |-> k])]
    /\ loc' = [loc EXCEPT ![i].off = k, ![i].saved = (k = NumChunks)]
    /\ Goto(i, IF k = NumChunks THEN "save" ELSE "write")
    /\ UNCHANGED <<call, result, io, pk, web>>

\* poster.save writes the next piece at its own file position
SaveWrite(i) ==
    LET k == loc[i].off + 1 IN
    /\ pc[i] = "write"
    /\ fs' = [fs EXCEPT !.data[loc[i].fd] = WriteAt(@, k, Chunk(loc[i].canvas, k))]
    /\ loc' = [loc EXCEPT ![i].off = k, ![i].saved = (k = NumChunks)]
    /\ Goto(i, IF k = NumChunks THEN "return" ELSE "write")
    /\ UNCHANGED <<call, result, io, pk, web>>

\* the write fails part way: what was written stays in the file
SaveWriteFail(i) ==
    /\ pc[i] = "write"
    /\ Raise(i, "SaveFailed")
    /\ UNCHANGED <<call, loc, io, fs, pk, web>>

\* return str(poster_path)
Return(i) ==
    /\ pc[i] = "return"
    /\ pc' = [pc EXCEPT ![i] = "done"]
    /\ result' = [result EXCEPT ![i] = Returned(PathStr(Get(loc[i].poster_path)))]
    /\ UNCHANGED <<call, loc, io, fs, pk, web>>

Step(i) ==
    \/ CheckTheme(i)
    \/ GetTheme(i)
    \/ CoverOk(i) \/ CoverFail(i)
    \/ ScannableOk(i) \/ ScannableFail(i)
    \/ OpenTemplateOk(i) \/ OpenTemplateFail(i)
    \/ DrawOk(i) \/ DrawFail(i)
    \/ MkdirOk(i) \/ MkdirFail(i)
    \/ SaveOpenOk(i) \/ SaveOpenFail(i)
    \/ SaveWrite(i) \/ SaveWriteFail(i)
    \/ Return(i)

\* one invocation, every argument
Next == (\E c \in Calls : Call(1, c)) \/ Step(1)

Spec == Init /\ [][Next]_vars

\* concurrent invocations
NextConc == (\E i \in Procs : \E c \in ConcCalls : Call(i, c)) \/ (\E i \in Procs : Step(i))

SpecConc == Init /\ [][NextConc]_vars

(***************************************************************************)
(* The packer alone, on every track list and capacity within the bounds.   *)
(***************************************************************************)
PackNames == {"A", "Bbb"}

PackInputs ==
    UNION { [1 .. n -> PackNames] : n \in 0 .. MaxTracks } \cup { <<"A", "B", "C", "D", "E">> }

InitPack ==
    /\ pc = [i \in Procs |-> "idle"]
    /\ call = [i \in Procs |-> NoCall]
    /\ loc = [i \in Procs |-> NoLocals]
    /\ result = [i \in Procs |-> NoResult]
    /\ io = [i \in Procs |-> <<>>]
    /\ fs = NoPosters
    /\ WebIdle
    /\ \E t \in PackInputs, ix \in BOOLEAN, cap \in 1 .. MaxCap :
          pk = [tracks |-> t, indexed |-> ix, cap |-> cap, done |-> FALSE,
                out |-> [columns |-> <<>>, widths |-> <<>>]]

ApplyPack ==
    /\ ~pk.done
    /\ pk' = [pk EXCEPT !.done = TRUE, !.out = pack(pk.tracks, pk.indexed, pk.cap)]
    /\ UNCHANGED <<pc, call, loc, result, io, fs, web>>

NextPack == ApplyPack

SpecPack == InitPack /\ [][NextPack]_vars


(***************************************************************************)
(* The lyrics stage of generate_track_endpoint (app.py 495-513): whatever  *)
(* ly.get_lyrics(track) gives is turned into the lines passed to           *)
(* ps.track().                                                             *)
(***************************************************************************)
MaxLines == 2        \* longest list the lyrics provider returns

NO_LYRICS ==
    <<"N", "o", " ", "l", "y", "r", "i", "c", "s", " ",
      "a", "v", "a", "i", "l", "a", "b", "l", "e">>

Whitespace == {" ", "\t", "\n"}

\* bool(x)
PyBool(x) ==
    CASE x.t = "str" -> x.v # <<>>
      [] x.t = "int" -> x.v # <<"0">>
      [] x.t = "list" -> x.items # <<>>
      [] OTHER -> FALSE

\* str(x)
PyToStr(x) == IF x.t = "none" THEN <<"N", "o", "n", "e">> ELSE x.v

RECURSIVE lstrip(_)
lstrip(s) == IF s # <<>> /\ Head(s) \in Whitespace THEN lstrip(Tail(s)) ELSE s

RECURSIVE rstrip(_)
rstrip(s) ==
    IF s # <<>> /\ s[Len(s)] \in Whitespace THEN rstrip(SubSeq(s, 1, Len(s) - 1)) ELSE s

\* str.strip()
strip(s) == rstrip(lstrip(s))

\* a variant of the filter that keeps every truthy item
KeepLineTruthyOnly(line) == PyBool(line)

\* if line and str(line).strip()
KeepLine(line) == PyBool(line) /\ strip(PyToStr(line)) # <<>>

\* [str(line).strip() for line in lyrics_data if line and str(line).strip()]
RECURSIVE CleanLines(_)
CleanLines(xs) ==
    IF xs = <<>> THEN <<>>
    ELSE (IF KeepLine(Head(xs)) THEN << strip(PyToStr(Head(xs))) >> ELSE <<>>)
         \o CleanLines(Tail(xs))

\* the try block around ly.get_lyrics(track): the lines, or the exception it lets through
LyricsData(outcome) ==
    IF outcome.kind = "raise"
    THEN IF outcome.exc = "NoLyricsAvailable"
         THEN [lyrics |-> << NO_LYRICS >>, exc |-> ""]
         ELSE [lyrics |-> <<>>, exc |-> outcome.exc]
    ELSE IF ~PyBool(outcome.val) \/ outcome.val.t # "list"
         THEN [lyrics |-> << NO_LYRICS >>, exc |-> ""]
         ELSE LET lines == CleanLines(outcome.val.items) IN
              [lyrics |-> IF lines = <<>> THEN << NO_LYRICS >> ELSE lines, exc |-> ""]

\* what the provider can hand back
LyricsItems ==
    { PyStr(<<>>), PyStr(<<" ">>), PyStr(<<"a">>), PyStr(<<" ", "a", "\n">>),
      PyStr(<<"\t">>), PyStr(<<"a", " ", "b">>), PyInt(<<"0">>), PyInt(<<"7">>), PyNone }

LyricsOutcomes ==
    { Gave(PyList(xs)) : xs \in UNION { [1 .. n -> LyricsItems] : n \in 0 .. MaxLines } }
    \cup { Gave(PyNone), Gave(PyStr(<<>>)), Gave(PyStr(<<"a", "\n", "b">>)), Gave(PyInt(<<"7">>)) }
    \cup { Threw("NoLyricsAvailable"), Threw("ConnectionError") }

InitLyrics ==
    /\ PosterIdle
    /\ fs = NoPosters
    /\ gt = NoLookup
    /\ AppIdle
    /\ \E o \in LyricsOutcomes : ly = [NoLyrics EXCEPT !.outcome = o, !.pc = "fetch"]

\* lines 498-513, up to the call of ps.track(track, lyrics=lyrics_data, ...)
FetchLyrics ==
    LET d == LyricsData(ly.outcome) IN
    /\ ly.pc = "fetch"
    /\ ly' = [ly EXCEPT !.lyrics = d.lyrics, !.exc = d.exc,
                        !.pc = IF d.exc = "" THEN "poster" ELSE "aborted"]
    /\ UNCHANGED <<composer, fs, gt, srv, db, req>>

NextLyrics == FetchLyrics

SpecLyrics == InitLyrics /\ [][NextLyrics]_vars


(***************************************************************************)
(* The metadata provider (spotify.py): get_track and get_album, one step   *)
(* per call to the Spotify API.  The recursive call of get_track returns   *)
(* what the inner call returns, so it is a jump back to the first line.    *)
(***************************************************************************)
MaxPieces == 3       \* pieces a drawn query is made of

TRACK_KEY == <<"t", "r", "a", "c", "k", ":">>
ARTIST_KEY == <<"a", "r", "t", "i", "s", "t", ":">>
DASH == <<" ", "-", " ">>

OccursAt(pat, s, k) ==
    k + Len(pat) - 1 <= Len(s) /\ SubSeq(s, k, k + Len(pat) - 1) = pat

\* s.find(pat) + 1
Find(pat, s) ==
    IF \E k \in 1 .. Len(s) : OccursAt(pat, s, k)
    THEN CHOOSE k \in 1 .. Len(s) :
             OccursAt(pat, s, k) /\ \A j \in 1 .. (k - 1) : ~OccursAt(pat, s, j)
    ELSE 0

\* pat in s
HasSub(pat, s) == Find(pat, s) # 0

\* s.split(pat)[0] and s.split(pat, 1)[1], for a pat that is in s
Before(pat, s) == SubSeq(s, 1, Find(pat, s) - 1)
After(pat, s) == SubSeq(s, Find(pat, s) + Len(pat), Len(s))

Quote(s) == <<"\"">> \o s \o <<"\"">>

\* lines 103-107: the simple format becomes the advanced format
FormatQuery(q) ==
    IF ~HasSub(TRACK_KEY, q) /\ ~HasSub(ARTIST_KEY, q) /\ HasSub(DASH, q)
    THEN TRACK_KEY \o Quote(strip(Before(DASH, q))) \o <<" ">>
         \o ARTIST_KEY \o Quote(strip(After(DASH, q)))
    ELSE q

\* a variant of the fallback that retries with the query as it is
SimpleQueryUnchanged(q) == q

\* line 120: query.split('artist:')[0].strip()
SimpleQuery(q) == strip(Before(ARTIST_KEY, q))

METADATA == [t |-> "metadata", v |-> <<>>, items |-> <<>>]

QueryPieces ==
    { TRACK_KEY, ARTIST_KEY, DASH, <<"x">>, <<" ">>, <<"x", " ", "-", " ", "y">> }

RECURSIVE Queries(_)
Queries(n) ==
    IF n = 0 THEN { <<>> }
    ELSE Queries(n - 1) \cup { q \o p : q \in Queries(n - 1), p \in QueryPieces }

InitSpotify ==
    /\ PosterIdle
    /\ fs = NoPosters
    /\ ly = NoLyrics
    /\ AppIdle
    /\ \E op \in {"track", "album"}, q \in Queries(MaxPieces), l \in 0 .. 1 :
          gt = [NoLookup EXCEPT !.op = op, !.pc = "enter", !.query = q, !.limit = l]

Finish(r, cause) == [gt EXCEPT !.pc = "done", !.result = r, !.cause = cause]

\* _ensure_token() fails: the exception leaves the method
EnterFail ==
    /\ gt.pc = "enter"
    /\ gt' = [Finish(Threw("SpotifyOauthError"), "failure") EXCEPT !.calls = @ + 1]
    /\ UNCHANGED <<composer, fs, ly, srv, db, req>>

\* lines 97-107 (get_album: 157-160): the token, the limit, the query's format
Enter ==
    /\ gt.pc = "enter"
    /\ gt' = IF gt.limit < 1
             THEN [Finish(Threw("ValueError"), "usage") EXCEPT !.calls = @ + 1]
             ELSE [gt EXCEPT !.pc = "search", !.calls = @ + 1,
                             !.query = IF gt.op = "track" THEN FormatQuery(@) ELSE @]
    /\ UNCHANGED <<composer, fs, ly, srv, db, req>>

\* what self.spotify.search(...) can do
SearchOutcomes == {"raise", "falsy", "malformed", "empty", "hit"}

\* lines 109-123 (get_album: 162-164)
Search ==
    /\ gt.pc = "search"
    /\ \E o \in SearchOutcomes :
          LET g == [gt EXCEPT !.log = Append(@, o)]
              done(r, cause) == [g EXCEPT !.pc = "done", !.result = r, !.cause = cause] IN
          gt' = CASE o = "raise" -> done(Threw("SpotifyException"), "failure")
                  [] o = "falsy" -> done(Gave(PyNone), "failure")
                  [] o = "malformed" ->
                       IF gt.op = "track" THEN done(Gave(PyNone), "failure")
                       ELSE done(Threw("KeyError"), "failure")
                  [] o = "empty" ->
                       IF gt.op = "track" /\ HasSub(ARTIST_KEY, gt.query)
                       THEN [g EXCEPT !.pc = "enter", !.query = SimpleQuery(@)]
                       ELSE done(Gave(PyNone), "not_found")
                  [] o = "hit" -> [g EXCEPT !.pc = "process"]
    /\ UNCHANGED <<composer, fs, ly, srv, db, req>>

\* lines 125-150: an error while the item is fetched and processed is caught
\* and None returned; get_album (166-182) lets it through
Process ==
    /\ gt.pc = "process"
    /\ \E ok \in BOOLEAN :
          gt' = IF ok THEN Finish(Gave(METADATA), "found")
                ELSE IF gt.op = "track" THEN Finish(Gave(PyNone), "failure")
                ELSE Finish(Threw("SpotifyException"), "failure")
    /\ UNCHANGED <<composer, fs, ly, srv, db, req>>

NextSpotify == EnterFail \/ Enter \/ Search \/ Process

SpecSpotify == InitSpotify /\ [][NextSpotify]_vars


(***************************************************************************)
(* The web application (app.py).  A request is routed, passes              *)
(* jwt_required where the endpoint has it, and runs the endpoint inside    *)
(* sentry_transaction and handle_errors; the handlers of concurrent        *)
(* requests interleave at their database and file operations.              *)
(***************************************************************************)
\* @app.route(...) in app.py
APP_ROUTES ==
    {"/auth/login", "/generate_album_poster", "/generate_track_poster", "/get_poster",
     "/protected", "/health"}

\* routes.py: the blueprint "routes" and its rule
BLUEPRINT_ROUTES == {"/hello"}

\* app.py calls app.register_blueprint for no blueprint
REGISTERED_BLUEPRINTS == {}

URL_MAP ==
    APP_ROUTES \cup (IF "routes" \in REGISTERED_BLUEPRINTS THEN BLUEPRINT_ROUTES ELSE {})

\* the endpoints decorated with @jwt_required()
JWT_REQUIRED == {"/generate_album_poster", "/generate_track_poster", "/get_poster", "/protected"}

\* what an endpoint's function did: returned a response, or raised
Responded(resp) == [kind |-> "return", resp |-> resp, exc |-> ""]
Failed(e) == [kind |-> "raise", resp |-> Resp(0, ""), exc |-> e]

EXCEPTIONS ==
    {"ValueError", "UnicodeDecodeError", "FileNotFoundError", "IsADirectoryError",
     "NoLyricsAvailable", "KeyError", "IntegrityError"}

\* isinstance(e, cls), along Python's exception hierarchy
IsA(e, cls) ==
    \/ e = cls
    \/ cls = "ValueError" /\ e = "UnicodeDecodeError"
    \/ cls = "OSError" /\ e \in {"FileNotFoundError", "IsADirectoryError", "PermissionError"}
    \/ cls = "Exception"

\* lines 112-148: the except clauses in their order
handle_errors(o) ==
    IF o.kind = "return" THEN o
    ELSE IF IsA(o.exc, "ValueError") THEN Responded(Resp(400, "Validation Error"))
    ELSE IF IsA(o.exc, "FileNotFoundError") THEN Responded(Resp(404, "File Not Found"))
    ELSE IF IsA(o.exc, "NoLyricsAvailable") THEN o
    ELSE Responded(Resp(500, "Internal Server Error"))

\* lines 78-109: the result is passed on, an exception is captured and raised again
sentry_transaction(o) == IF o.kind = "return" THEN Responded(o.resp) ELSE Failed(o.exc)

\* Flask: an exception that leaves the view goes to @app.errorhandler(Exception)
handle_unexpected_error(o) ==
    IF o.kind = "return" THEN o.resp ELSE Resp(500, "Internal Server Error")

\* @sentry_transaction @handle_errors def endpoint
Answer(o) == handle_unexpected_error(sentry_transaction(handle_errors(o)))

Done(q, o) ==
    [q EXCEPT !.pc = "done", !.exc = o.exc, !.resp = Answer(o)]

\* a request arrives: routing, then jwt_required, then the endpoint's first line
Dispatch(r, rq) ==
    /\ srv.phase = "running"
    /\ req[r].pc = "idle"
    /\ req' = [req EXCEPT ![r] =
          IF rq.path \notin URL_MAP
          THEN [rq EXCEPT !.pc = "done", !.resp = Resp(404, "Not Found")]
          ELSE IF rq.path \in JWT_REQUIRED /\ ~rq.authed
          THEN [rq EXCEPT !.pc = "done", !.resp = Resp(401, "Unauthorized")]
          ELSE IF rq.path = "/hello"
          THEN [rq EXCEPT !.pc = "done", !.resp = Resp(200, "Hello, World!")]
          ELSE IF rq.path \in {"/health", "/protected"}
          THEN [rq EXCEPT !.pc = "done", !.resp = Resp(200, "")]
          ELSE [rq EXCEPT !.pc = "body"]]
    /\ UNCHANGED <<composer, fs, ly, gt, srv, db>>

\* the client has its response; the handler serves the next request
Reset(r) ==
    /\ req[r].pc = "done"
    /\ req' = [req EXCEPT ![r] = NoRequest]
    /\ UNCHANGED <<composer, fs, ly, gt, srv, db>>

\* line 116, f(*args, **kwargs) of a poster endpoint: it returns a response or raises
EndpointBody(r) ==
    /\ req[r].pc = "body"
    /\ req[r].path \in {"/generate_album_poster", "/generate_track_poster"}
    /\ \E o \in { Responded(Resp(200, "")), Responded(Resp(404, "Track not found")) }
               \cup { Failed(e) : e \in EXCEPTIONS } :
          req' = [req EXCEPT ![r] = Done(@, o)]
    /\ UNCHANGED <<composer, fs, ly, gt, srv, db>>

\* lines 251-260: sp = spotify.Spotify(os.getenv(...), os.getenv(...)); the client
\* library rejects a missing credential, and whatever it raises is raised again
Import ==
    /\ srv.phase = "import"
    /\ \E e \in (IF IsSome(srv.env.id) /\ IsSome(srv.env.secret)
                 THEN {"", "SpotifyOauthError"} ELSE {"SpotifyOauthError"}) :
          srv' = [srv EXCEPT !.phase = IF e = "" THEN "running" ELSE "failed", !.raised = e]
    /\ UNCHANGED <<composer, fs, ly, gt, db, req>>

\* test.py 21-22: app.config['SPOTIFY_CLIENT_ID'] = None, likewise the secret
SetConfig(k) ==
    /\ srv.phase = "running"
    /\ srv' = [srv EXCEPT !.config = (k :> None) @@ @]
    /\ UNCHANGED <<composer, fs, ly, gt, db, req>>

AppRequests ==
    { [NoRequest EXCEPT !.path = p, !.authed = a] :
        p \in {"/hello", "/health", "/generate_album_poster", "/generate_track_poster"},
        a \in BOOLEAN }

InitApp ==
    /\ PosterIdle
    /\ fs = NoPosters
    /\ ly = NoLyrics
    /\ gt = NoLookup
    /\ db = NoDevices
    /\ req = [r \in Reqs |-> NoRequest]
    /\ \E id \in {None, Some("id")}, secret \in {None, Some("secret")} :
          srv = [Running EXCEPT !.phase = "import", !.env = [id |-> id, secret |-> secret]]

NextApp ==
    \/ Import
    \/ \E k \in {"SPOTIFY_CLIENT_ID", "SPOTIFY_CLIENT_SECRET"} : SetConfig(k)
    \/ \E r \in Reqs :
          \/ \E rq \in AppRequests : Dispatch(r, rq)
          \/ EndpointBody(r)
          \/ Reset(r)

SpecApp == InitApp /\ [][NextApp]_vars


(***************************************************************************)
(* login (app.py 263-337): the query of the devices table and the insert   *)
(* are two database operations; device_id is a unique column.              *)
(***************************************************************************)
DeviceIds == { <<"d", "1">>, <<"d", "2">> }

LoginRequests ==
    { [NoRequest EXCEPT !.path = "/auth/login", !.arg = a] :
        a \in {None, Some(<<>>)} \cup { Some(d) : d \in DeviceIds } }

\* lines 275-313: device_id, Device.query.filter_by(device_id=device_id).first(),
\* and create_access_token for a device that is not in the table
LoginQuery(r) ==
    LET q == req[r]
        d == Get(q.arg) IN
    /\ q.pc = "body" /\ q.path = "/auth/login"
    /\ req' = [req EXCEPT ![r] =
          IF ~Truthy(q.arg)
          THEN Done(q, Responded(Resp(400, "Missing required parameters")))
          ELSE IF d \in DOMAIN db.devices
          THEN Done(q, Responded([Resp(200, "") EXCEPT !.token = Some(db.devices[d])]))
          ELSE [q EXCEPT !.pc = "commit", !.token = Some([device |-> d, by |-> r])]]
    /\ UNCHANGED <<composer, fs, ly, gt, srv, db>>

\* lines 314-337: db.session.add(new_device); db.session.commit()
LoginCommit(r) ==
    LET q == req[r]
        d == Get(q.arg) IN
    /\ q.pc = "commit"
    /\ IF d \in DOMAIN db.devices
       THEN /\ req' = [req EXCEPT ![r] = Done(q, Failed("IntegrityError"))]
            /\ UNCHANGED db
       ELSE /\ db' = [db EXCEPT !.devices = (d :> Get(q.token)) @@ @]
            /\ req' = [req EXCEPT ![r] =
                  Done(q, Responded([Resp(201, "") EXCEPT !.token = q.token, !.is_new = TRUE]))]
    /\ UNCHANGED <<composer, fs, ly, gt, srv>>

NextLogin ==
    \E r \in Reqs :
        \/ \E rq \in LoginRequests : Dispatch(r, rq)
        \/ LoginQuery(r)
        \/ LoginCommit(r)
        \/ Reset(r)

SpecLogin == Init /\ [][NextLogin]_vars


(***************************************************************************)
(* get_poster (app.py 555-621): the file is read, then removed.            *)
(***************************************************************************)
\* os.path.join(a, b): an absolute b replaces a
os_path_join(a, b) ==
    IF b # <<>> /\ b[1] = "/" THEN b
    ELSE IF a = <<>> \/ a[Len(a)] = "/" THEN a \o b
    ELSE a \o <<"/">> \o b

\* filepath = os.path.join(app.config['DOWNLOAD_DIR'], filename), as the system resolves it
FilePath(name) == FsKey(Path(os_path_join(Get(srv.config["DOWNLOAD_DIR"]), name)))

\* a generated track poster in the download directory, and a file outside of it
POSTER_KEY == << <<"d">>, <<"t">>, <<"p">> >>
OUTSIDE_KEY == << <<"s">> >>

Generated ==
    [dirs |-> Ancestors(Parent(POSTER_KEY)),
     files |-> (POSTER_KEY :> 1) @@ (OUTSIDE_KEY :> 2),
     data |-> (1 :> Encoded(<<>>)) @@ (2 :> << Hole >>)]

Filenames ==
    { <<>>, <<"t", "/", "p">>, <<"t", "/", "q">>, <<"t">>, <<"/", "s">>,
      <<".", ".", "/", "s">> }

PosterRequests ==
    { [NoRequest EXCEPT !.path = "/get_poster", !.arg = f, !.authed = a] :
        f \in {None} \cup { Some(n) : n \in Filenames }, a \in BOOLEAN }

\* lines 565-590: filename, filepath, open(filepath, 'rb') and read
GpRead(r) ==
    LET q == req[r]
        key == FilePath(Get(q.arg)) IN
    /\ q.pc = "body" /\ q.path = "/get_poster"
    /\ req' = [req EXCEPT ![r] =
          IF ~Truthy(q.arg)
          THEN Done(q, Responded(Resp(400, "Missing required parameters")))
          ELSE IF IsFile(key)
          THEN [q EXCEPT !.pc = "remove", !.key = key, !.content = fs.data[fs.files[key]]]
          ELSE IF key \in fs.dirs
          THEN Done([q EXCEPT !.key = key], Failed("IsADirectoryError"))
          ELSE Done([q EXCEPT !.key = key], Failed("FileNotFoundError"))]
    /\ UNCHANGED <<composer, fs, ly, gt, srv, db>>

Served(q, warning) ==
    Done(q, Responded([Resp(200, "") EXCEPT !.image = q.content, !.warning = warning]))

\* a variant that answers as if it had deleted the file, and leaves it
GpRemoveKeeps(r) ==
    /\ req[r].pc = "remove"
    /\ IsFile(req[r].key)
    /\ req' = [req EXCEPT ![r] = Served(@, FALSE)]
    /\ UNCHANGED <<composer, fs, ly, gt, srv, db>>

\* lines 592-607: os.remove(filepath) and the answer
GpRemove(r) ==
    /\ req[r].pc = "remove"
    /\ IsFile(req[r].key)
    /\ fs' = [fs EXCEPT !.files = [k \in DOMAIN @ \ {req[r].key} |-> @[k]]]
    /\ req' = [req EXCEPT ![r] = Served(@, FALSE)]
    /\ UNCHANGED <<composer, ly, gt, srv, db>>

\* lines 608-621, except OSError: the file is gone (FileNotFoundError is an
\* OSError), or the system refuses to remove it
GpRemoveFail(r) ==
    /\ req[r].pc = "remove"
    /\ req' = [req EXCEPT ![r] = Served(@, TRUE)]
    /\ UNCHANGED <<composer, fs, ly, gt, srv, db>>

InitServe ==
    /\ PosterIdle
    /\ fs = Generated
    /\ WebIdle

NextServe ==
    \E r \in Reqs :
        \/ \E rq \in PosterRequests : Dispatch(r, rq)
        \/ GpRead(r)
        \/ GpRemove(r)
        \/ GpRemoveFail(r)
        \/ Reset(r)

SpecServe == InitServe /\ [][NextServe]_vars


(***************************************************************************)
(* generate_track_poster (app.py 434-552) and the client that asks for a   *)
(* poster and then fetches it.  Client r has one request in progress at a  *)
(* time; the ps.track() call of its request is invocation r.               *)
(***************************************************************************)
Clients == Procs \cap Reqs

TRACKS == <<"t", "r", "a", "c", "k", "s">>

RECURSIVE CommonLen(_, _)
CommonLen(a, b) ==
    IF a = <<>> \/ b = <<>> \/ Head(a) # Head(b) THEN 0
    ELSE 1 + CommonLen(Tail(a), Tail(b))

\* os.path.relpath(path, start)
relpath(path, start) ==
    LET p == FsKey(Path(path))
        s == FsKey(Path(start))
        n == CommonLen(p, s)
        rel == [k \in 1 .. (Len(s) - n) |-> <<".", ".">>] \o SubSeq(p, n + 1, Len(p)) IN
    IF rel = <<>> THEN <<".">> ELSE JoinParts(rel)

\* data.get(key, default)
DataGet(o, default) == IF IsSome(o) THEN Get(o) ELSE default

\* the image library reads a whole image: an empty or cut-off file is none
Decodes(content) ==
    /\ Len(content) = NumChunks
    /\ \A k \in 1 .. NumChunks : content[k].part = k

GenerateRequests ==
    { [NoRequest EXCEPT !.path = "/generate_track_poster", !.authed = a,
                        !.data = [track_name |-> n, artist_name |-> Some(<<"X">>),
                                  theme |-> th, accent |-> None]] :
        a \in BOOLEAN, n \in {None, Some(<<"A">>)}, th \in {None, Some("Dark")} }

\* what ly.get_lyrics(track) gives in these runs
ClientLyrics ==
    { Gave(PyList(<< PyStr(<<"a">>) >>)), Threw("NoLyricsAvailable"), Threw("ConnectionError") }

\* lines 446-525: the parameters, sp.get_track, the lyrics, and the entry into
\* ps.track(track, lyrics=lyrics_data, save_dir=save_dir, theme=theme, ...)
GenTrackEnter(r) ==
    LET q == req[r]
        d == q.data
        save_dir == os_path_join(Get(srv.config["DOWNLOAD_DIR"]), TRACKS) IN
    /\ q.pc = "body" /\ q.path = "/generate_track_poster"
    /\ r \in Procs /\ pc[r] = "idle"
    /\ \E found \in BOOLEAN, o \in ClientLyrics :
          LET l == LyricsData(o)
              enters == Truthy(d.track_name) /\ Truthy(d.artist_name) /\ found /\ l.exc = ""
              c == [kind |-> "track",
                    md |-> Metadata(Get(d.track_name), Get(d.artist_name), <<>>),
                    lyrics |-> l.lyrics, save_dir |-> Some(save_dir), indexing |-> FALSE,
                    accent |-> DataGet(d.accent, FALSE), theme |-> DataGet(d.theme, "Light"),
                    custom_cover |-> None] IN
          /\ req' = [req EXCEPT ![r] =
                IF ~Truthy(d.track_name) \/ ~Truthy(d.artist_name)
                THEN Done(q, Responded(Resp(400, "Missing required parameters")))
                ELSE IF ~found THEN Done(q, Responded(Resp(404, "Track not found")))
                ELSE IF l.exc # "" THEN Done(q, Failed(l.exc))
                ELSE [q EXCEPT !.pc = "poster"]]
          /\ pc' = IF enters THEN [pc EXCEPT ![r] = "theme_check"] ELSE pc
          /\ call' = IF enters THEN [call EXCEPT ![r] = c] ELSE call
    /\ UNCHANGED <<loc, result, io, fs, pk, ly, gt, srv, db>>

\* lines 518-552: ps.track returned local_path or raised; relpath; the file is
\* opened and read for the blurhash; the answer carries filePath
GenTrackAnswer(r) ==
    LET q == req[r]
        local_path == result[r].val
        key == FsKey(Path(local_path))
        rel_path == relpath(local_path, Get(srv.config["DOWNLOAD_DIR"])) IN
    /\ q.pc = "poster"
    /\ pc[r] = "done"
    /\ req' = [req EXCEPT ![r] =
          IF result[r].kind = "raise" THEN Done(q, Failed(result[r].val[1]))
          ELSE IF key \in fs.dirs THEN Done(q, Failed("IsADirectoryError"))
          ELSE IF ~IsFile(key) THEN Done(q, Failed("FileNotFoundError"))
          ELSE IF ~Decodes(fs.data[fs.files[key]])
          THEN Done(q, Failed("UnidentifiedImageError"))
          ELSE Done(q, Responded([Resp(200, "") EXCEPT !.filePath = rel_path]))]
    /\ UNCHANGED <<composer, fs, ly, gt, srv, db>>

\* the client has its 200 and asks /get_poster for the filePath it was given,
\* with the token it has
FetchOwn(r) ==
    LET q == req[r] IN
    /\ srv.phase = "running"
    /\ q.pc = "done" /\ q.path = "/generate_track_poster"
    /\ q.resp.status = 200
    /\ req' = [req EXCEPT ![r] =
          [NoRequest EXCEPT !.path = "/get_poster", !.arg = Some(q.resp.filePath),
                            !.authed = q.authed, !.pc = "body"]]
    /\ UNCHANGED <<composer, fs, ly, gt, srv, db>>

NextClients ==
    \E r \in Clients :
        \/ \E rq \in GenerateRequests : Dispatch(r, rq)
        \/ GenTrackEnter(r)
        \/ Step(r)
        \/ GenTrackAnswer(r)
        \/ FetchOwn(r)
        \/ GpRead(r)
        \/ GpRemove(r)
        \/ GpRemoveFail(r)

SpecClients == Init /\ [][NextClients]_vars


(***************************************************************************)
(* The composer's states, read off what the invocation holds.              *)
(***************************************************************************)
State(i) ==
    IF loc[i].saved THEN "Saved"
    ELSE IF loc[i].drawn THEN "TextComposed"
    ELSE IF IsSome(loc[i].scannable) THEN "CodeReady"
    ELSE IF IsSome(loc[i].cover) THEN "CoverReady"
    ELSE IF IsSome(loc[i].color) THEN "ThemeResolved"
    ELSE "Init"

Rank(s) ==
    CASE s = "Init" -> 0 [] s = "ThemeResolved" -> 1 [] s = "CoverReady" -> 2
      [] s = "CodeReady" -> 3 [] s = "TextComposed" -> 4 [] s = "Saved" -> 5

Called(i) == call[i].kind # "none"
HasReturned(i) == result[i].kind = "return"
HasRaised(i) == result[i].kind = "raise"
Saves(i) == Count(io[i], "save")
OpsOf(canvas) == [k \in 1 .. Len(canvas) |-> canvas[k].op]
TitleBlockOps == <<"cover", "scannable", "palette", "heading", "artist", "label">>
InitialFs == [dirs |-> Ancestors(<< <<"d">> >>), files |-> NoFiles, data |-> NoFiles]

(***************************************************************************)
(* C1: with a theme name outside the theme set, track() and album() raise  *)
(* ThemeNotFoundError at the theme check: no cover fetch, code render,     *)
(* template load, directory creation or file write has been attempted, no  *)
(* local is bound and the file system is as it was.                        *)
(***************************************************************************)
C1_UnknownThemeRaisesBeforeIO ==
    \A i \in Procs :
        (Called(i) /\ call[i].theme \notin {"Light", "Dark"}) =>
            /\ io[i] = <<>>
            /\ loc[i] = NoLocals
            /\ fs = InitialFs
            /\ pc[i] \in {"theme_check", "done"}
            /\ pc[i] = "done" => result[i] = Raised("ThemeNotFoundError")

C1_Witness ==
    \E i \in Procs :
        /\ call[i].theme = "Neon"
        /\ pc[i] = "done"
        /\ result[i] = Raised("ThemeNotFoundError")

PreSaveErrors ==
    {"ThemeNotFoundError", "CoverUnavailable", "ScannableError", "TemplateError",
     "DrawError", "OSError"}

(***************************************************************************)
(* C2: an invocation that failed before the save step (theme, cover, code, *)
(* template, drawing or directory creation) has not opened or written the  *)
(* poster file, and no file exists; an invocation that has started the     *)
(* save holds the complete drawing of its arguments in memory.             *)
(***************************************************************************)
C2_NoBytesBeforeSave ==
    \A i \in Procs :
        /\ (HasRaised(i) /\ result[i].val[1] \in PreSaveErrors) =>
              /\ Saves(i) = 0
              /\ loc[i].off = 0 /\ loc[i].fd = 0
              /\ fs.files = NoFiles /\ fs.data = NoFiles
        /\ Saves(i) > 0 =>
              /\ loc[i].drawn
              /\ SubSeq(OpsOf(loc[i].canvas), 1, 6) = TitleBlockOps
              /\ io[i] = <<"cover", "scannable", "template", "mkdir", "save">>

C2_Witness ==
    \E i \in Procs :
        /\ result[i] = Raised("OSError")
        /\ loc[i].drawn
        /\ fs.files = NoFiles

(***************************************************************************)
(* C3: an invocation moves through Init, ThemeResolved, CoverReady,        *)
(* CodeReady, TextComposed, Saved one state at a time and never back; a    *)
(* returned invocation is in Saved; an invocation that raised is not in    *)
(* Saved and stays in the state it raised in.                              *)
(***************************************************************************)
C3_StatesInOrder ==
    [][\A i \in Procs :
          /\ Rank(State(i)') \in {Rank(State(i)), Rank(State(i)) + 1}
          /\ pc[i] \in {"idle", "theme_check"} => State(i) = "Init"
          /\ HasReturned(i)' => State(i)' = "Saved"
          /\ HasRaised(i)' => State(i)' = State(i) /\ State(i) # "Saved"]_vars

C3_Witness ==
    \E i \in Procs : HasReturned(i) /\ State(i) = "Saved" /\ call[i].kind = "album"

(***************************************************************************)
(* C4: no invocation saves the poster file more than once, and an          *)
(* invocation that returned a path has saved it exactly once, in full.     *)
(***************************************************************************)
C4_SavedExactlyOnce ==
    \A i \in Procs :
        /\ Saves(i) <= 1
        /\ HasReturned(i) => Saves(i) = 1 /\ loc[i].off = NumChunks
        /\ loc[i].off <= NumChunks

C4_Witness ==
    \E i \in Procs : HasReturned(i) /\ Saves(i) = 1 /\ call[i].kind = "track"


ExpectedDir(save_dir) ==
    IF save_dir = Some(<<"/", "o">>) THEN << <<"o">> >>
    ELSE IF save_dir = Some(<<"q", "/", ".", ".", "/", "r">>) THEN << <<"w">>, <<"r">> >>
    ELSE << <<"d">> >>

ExpectedKey(c) == ExpectedDir(c.save_dir) \o << filename(c.md.name, c.md.artist) >>

(***************************************************************************)
(* C5: a returned path is the string of <save directory>/<file name>: the  *)
(* directory is the resolved override when a non-empty one was passed and  *)
(* the Poster's default otherwise, the file name is that of (name, artist) *)
(* as one path component; the poster was written to that very path; no     *)
(* other argument takes part.                                              *)
(***************************************************************************)
C5_ReturnedPath ==
    \A i \in Procs :
        HasReturned(i) =>
            /\ result[i].val = <<"/">> \o JoinParts(ExpectedKey(call[i]))
            /\ Get(loc[i].poster_path) = [abs |-> TRUE, parts |-> ExpectedKey(call[i])]
            /\ DOMAIN fs.files = {ExpectedKey(call[i])}
            /\ fs.data[fs.files[ExpectedKey(call[i])]] = Encoded(loc[i].canvas)

C5_Witness ==
    \E i \in Procs :
        /\ HasReturned(i)
        /\ call[i].save_dir = Some(<<"q", "/", ".", ".", "/", "r">>)
        /\ call[i].theme = "Dark" /\ call[i].accent /\ IsSome(call[i].custom_cover)
        /\ result[i].val = <<"/", "w", "/", "r", "/", "A", "_", "X", ".", "p", "n", "g">>

(***************************************************************************)
(* C6: the file name derived from any name and artist holds no path        *)
(* separator, so the poster path is the save directory plus exactly one    *)
(* component and every file written lies directly in the save directory.   *)
(***************************************************************************)
C6_NameHasNoSeparator ==
    \A i \in Procs :
        /\ Called(i) =>
              /\ ~Contains(PosterName(call[i]), "/")
              /\ ~Contains(PosterName(call[i]), "\\")
        /\ IsSome(loc[i].poster_path) =>
              /\ Get(loc[i].poster_path).abs
              /\ Parent(Get(loc[i].poster_path).parts) = Get(loc[i].save_path).parts
              /\ Len(Get(loc[i].poster_path).parts) = Len(Get(loc[i].save_path).parts) + 1
              /\ \A k \in DOMAIN fs.files : Parent(k) = Get(loc[i].save_path).parts

C6_Witness ==
    \E i \in Procs :
        /\ HasReturned(i)
        /\ call[i].md.name = <<"A", "/", "B", ":", " ", "T">>
        /\ call[i].md.artist = <<"a", "/", "b">>
        /\ call[i].save_dir = None
        /\ DOMAIN fs.files =
              { << <<"d">>,
                   <<"A", "_", "B", "_", "_", "T", "_", "a", "_", "b", ".", "p", "n", "g">> >> }

(***************************************************************************)
(* C7: for an album without tracks the packer gives no column and no       *)
(* width; album() then draws the title block and nothing else, can go on   *)
(* to the save step, and a returned invocation has saved that drawing.     *)
(***************************************************************************)
C7_EmptyAlbum ==
    /\ \A ix \in BOOLEAN : organize_tracks(<<>>, ix) = [columns |-> <<>>, widths |-> <<>>]
    /\ \A i \in Procs :
          (call[i].kind = "album" /\ call[i].md.tracks = <<>>) =>
              /\ pc[i] = "draw" => ENABLED DrawOk(i)
              /\ loc[i].drawn =>
                    /\ OpsOf(loc[i].canvas) = TitleBlockOps
                    /\ loc[i].canvas[4].what = <<Get(loc[i].color)>> \o upper(call[i].md.name)
              /\ HasReturned(i) => loc[i].drawn /\ Saves(i) = 1

C7_Witness ==
    \E i \in Procs :
        /\ call[i].kind = "album" /\ call[i].md.tracks = <<>> /\ call[i].indexing
        /\ HasReturned(i)
        /\ OpsOf(loc[i].canvas) = TitleBlockOps

IsTracksOp(d) == d.op = "tracks"
TrackOps(canvas) == SelectSeq(canvas, IsTracksOp)

(***************************************************************************)
(* C9: album() draws one text block a packed column, in order, all at      *)
(* y = C_TRACKS.y; column k is at x = C_TRACKS.x + the sum over the        *)
(* earlier columns of (width + S_SPACING), so the origins strictly         *)
(* increase and neighbours are width + S_SPACING apart.                    *)
(***************************************************************************)
C9_ColumnOrigins ==
    \A i \in Procs :
        (call[i].kind = "album" /\ loc[i].drawn) =>
            LET packed == organize_tracks(call[i].md.tracks, call[i].indexing)
                ops == TrackOps(loc[i].canvas)
            IN
            /\ Len(ops) = Len(packed.columns)
            /\ \A k \in 1 .. Len(ops) :
                  /\ ops[k].at[2] = C_TRACKS[2]
                  /\ ops[k].at[1] = C_TRACKS[1] + SeqSum(SubSeq(packed.widths, 1, k - 1))
                                                + (k - 1) * S_SPACING
                  /\ ops[k].what = <<Get(loc[i].color)>> \o packed.columns[k]
            /\ \A k \in 1 .. (Len(ops) - 1) :
                  /\ ops[k + 1].at[1] > ops[k].at[1]
                  /\ ops[k + 1].at[1] - ops[k].at[1] = packed.widths[k] + S_SPACING

C9_Witness ==
    \E i \in Procs :
        /\ call[i].kind = "album" /\ loc[i].drawn /\ ~call[i].indexing
        /\ call[i].md.tracks = <<"A", "Bbb", "C", "Dd", "E">>
        /\ Len(TrackOps(loc[i].canvas)) = 3
        /\ TrackOps(loc[i].canvas)[3].at = <<10, 9>>


RECURSIVE Flatten(_)
Flatten(cols) == IF cols = <<>> THEN <<>> ELSE cols[1] \o Flatten(Tail(cols))

Labels == <<"01. ", "02. ", "03. ", "04. ", "05. ", "06. ", "07. ", "08. ", "09. ">>

(***************************************************************************)
(* C8: the packed columns, read left to right, are the tracks in catalog   *)
(* order; every column holds between 1 and capacity lines and every column *)
(* but the last is full; with indexing a line is its two-digit position in *)
(* the album, a dot, and the name.  Five tracks with capacity 3 and        *)
(* indexing give the columns 01 02 03 and 04 05.                           *)
(***************************************************************************)
C8_PackOrderAndIndex ==
    pk.done =>
        LET cols == pk.out.columns
            n == Len(pk.tracks)
        IN
        /\ Flatten(cols) =
              [k \in 1 .. n |-> IF pk.indexed THEN Labels[k] \o pk.tracks[k] ELSE pk.tracks[k]]
        /\ \A c \in 1 .. Len(cols) :
              /\ Len(cols[c]) >= 1
              /\ Len(cols[c]) <= pk.cap
              /\ c < Len(cols) => Len(cols[c]) = pk.cap
        /\ Len(pk.out.widths) = Len(cols)
        /\ (pk.tracks = <<"A", "B", "C", "D", "E">> /\ pk.cap = 3 /\ pk.indexed) =>
              cols = << <<"01. A", "02. B", "03. C">>, <<"04. D", "05. E">> >>

C8_Witness ==
    /\ pk.done /\ pk.indexed /\ pk.cap = 3
    /\ pk.tracks = <<"A", "B", "C", "D", "E">>
    /\ Len(pk.out.columns) = 2
    /\ pk.out.columns[2] = <<"04. D", "05. E">>

Rendered(c) ==
    Compose([color |-> Some(get_theme(c.theme).color),
             cover |-> Some(cover(c.md.image, c.custom_cover)),
             scannable |-> Some(scannable(c.md.id, c.theme, c.kind = "album"))], c)

OwnKey(i) == << <<"d">>, filename(call[i].md.name, call[i].md.artist) >>

Alone(i) == \A j \in Procs \ {i} : Called(j) => OwnKey(j) # OwnKey(i)

(***************************************************************************)
(* C10: in every interleaving, an invocation that returned while no other  *)
(* invocation derives the same output path has a file at its own path     *)
(* that holds exactly the poster of its own arguments, and has returned    *)
(* its own path.                                                           *)
(***************************************************************************)
C10_DistinctPathsDoNotInterfere ==
    \A i \in Procs :
        (HasReturned(i) /\ Alone(i)) =>
            /\ OwnKey(i) \in DOMAIN fs.files
            /\ fs.data[fs.files[OwnKey(i)]] =
                  [k \in 1 .. NumChunks |-> [img |-> Rendered(call[i]), part |-> k]]
            /\ result[i].val = <<"/">> \o JoinParts(OwnKey(i))

C10_Witness ==
    /\ HasReturned(1) /\ Alone(1)
    /\ pc[2] = "write" /\ loc[2].off = 1
    /\ loc[2].fd = 1 /\ loc[1].fd = 2
    /\ call[1].theme # call[2].theme

SameKey(i) == { j \in Procs : Called(j) /\ OwnKey(j) = OwnKey(i) }

\* at least two invocations derive the path of i, and all of them returned
Settled(i) == Cardinality(SameKey(i)) >= 2 /\ \A j \in SameKey(i) : HasReturned(j)

FileAt(key) == fs.data[fs.files[key]]

NonBlank(s) == \E k \in 1 .. Len(s) : s[k] \notin Whitespace

\* the provider did one of: return lines, nothing, a non-list, blank lines; raise NoLyricsAvailable
ProviderCase(o) == o.kind = "return" \/ o.exc = "NoLyricsAvailable"

\* the provider returned a list with a line that is truthy and not blank
HasUsableLine(o) ==
    /\ o.kind = "return" /\ o.val.t = "list"
    /\ \E k \in 1 .. Len(o.val.items) :
          PyBool(o.val.items[k]) /\ NonBlank(PyToStr(o.val.items[k]))

(***************************************************************************)
(* C12: whatever the lyrics provider does (returns lines, nothing, a       *)
(* non-list, only blank lines, or raises NoLyricsAvailable), the request   *)
(* goes on to Poster.track() and the lyrics passed are a non-empty list of *)
(* non-blank strings: the placeholder "No lyrics available" alone when no  *)
(* usable line exists.                                                     *)
(***************************************************************************)
C12_LyricsNormalised ==
    (ly.pc \notin {"idle", "fetch"} /\ ProviderCase(ly.outcome)) =>
        /\ ly.pc = "poster"
        /\ ly.lyrics # <<>>
        /\ \A k \in 1 .. Len(ly.lyrics) : NonBlank(ly.lyrics[k])
        /\ ~HasUsableLine(ly.outcome) => ly.lyrics = << NO_LYRICS >>

C12_Witness ==
    /\ ly.pc = "poster"
    /\ ly.outcome = Gave(PyList(<< PyStr(<<" ">>), PyInt(<<"0">>) >>))
    /\ ly.lyrics = << NO_LYRICS >>

(***************************************************************************)
(* C13, as stated: for get_track and get_album, "no match found" and a     *)
(* failed lookup never give the caller the same result: the result of a    *)
(* search that found no item, None, is given only when no item was found.  *)
(***************************************************************************)
C13_NotFoundDistinctFromFailure ==
    (gt.pc = "done" /\ gt.result = Gave(PyNone)) => gt.cause = "not_found"

AllEmpty(log) == log # <<>> /\ \A k \in 1 .. Len(log) : log[k] = "empty"

(***************************************************************************)
(* C20: get_track ends for every query: it is entered at most three times  *)
(* and searches at most three times, every fallback enters it with a query *)
(* that has no 'artist:' part, it is never stuck before it ends, and a     *)
(* lookup all of whose searches found nothing returns None unless the      *)
(* token refresh raised.                                                   *)
(***************************************************************************)
C20_FallbackBounded ==
    gt.op = "track" =>
        /\ gt.calls <= 3 /\ Len(gt.log) <= 3
        /\ (gt.pc = "enter" /\ gt.calls >= 1) => ~HasSub(ARTIST_KEY, gt.query)
        /\ gt.pc # "done" => ENABLED NextSpotify
        /\ (gt.pc = "done" /\ AllEmpty(gt.log) /\ gt.result.exc # "SpotifyOauthError") =>
              gt.result = Gave(PyNone) /\ gt.cause = "not_found"

C20_Witness ==
    /\ gt.op = "track" /\ gt.pc = "done"
    /\ gt.log = <<"empty", "empty", "empty">>
    /\ gt.calls = 3
    /\ gt.result = Gave(PyNone)

(***************************************************************************)
(* C14, as stated: a GET request to /hello is answered with status 200     *)
(* and a body containing "Hello, World!".                                  *)
(***************************************************************************)
C14_HelloAnswers200 ==
    \A r \in Reqs :
        (req[r].pc = "done" /\ req[r].path = "/hello") =>
            req[r].resp.status = 200 /\ req[r].resp.error = "Hello, World!"

ConfigIsNone(k) == k \in DOMAIN srv.config /\ srv.config[k] = None

(***************************************************************************)
(* C15, as stated: when the Spotify client id and client secret are        *)
(* missing (None), in the environment the application starts in or in      *)
(* app.config, the application signals an EnvironmentError.                *)
(***************************************************************************)
C15_MissingCredentialsSignalled ==
    /\ (srv.phase # "import" /\ srv.env.id = None /\ srv.env.secret = None) =>
          srv.raised = "EnvironmentError"
    /\ (ConfigIsNone("SPOTIFY_CLIENT_ID") /\ ConfigIsNone("SPOTIFY_CLIENT_SECRET")) =>
          srv.raised = "EnvironmentError"

(***************************************************************************)
(* C18, as stated: every exception raised inside an endpoint wrapped by    *)
(* handle_errors ends in a JSON response with success=false whose status   *)
(* the exception determines: ValueError 400, FileNotFoundError 404, every  *)
(* other exception 500, except that NoLyricsAvailable does not reach the   *)
(* client as a server error.                                               *)
(***************************************************************************)
C18_StatusByException ==
    \A r \in Reqs :
        (req[r].pc = "done" /\ req[r].exc # "") =>
            /\ ~req[r].resp.success
            /\ req[r].resp.status =
                  (IF IsA(req[r].exc, "ValueError") THEN 400
                   ELSE IF IsA(req[r].exc, "FileNotFoundError") THEN 404
                   ELSE req[r].resp.status)
            /\ IF req[r].exc = "NoLyricsAvailable" THEN req[r].resp.status < 500
               ELSE (IsA(req[r].exc, "ValueError") \/ IsA(req[r].exc, "FileNotFoundError")
                     \/ req[r].resp.status = 500)

LoginOf(r) == req[r].pc = "done" /\ req[r].path = "/auth/login" /\ Truthy(req[r].arg)

(***************************************************************************)
(* C16, as stated: every login for a device_id d returns the access token  *)
(* stored by the first successful login for d: it answers 201 with         *)
(* is_new_device=true or 200 with is_new_device=false, in both cases with  *)
(* the token the table holds for d.                                        *)
(***************************************************************************)
C16_LoginReturnsStoredToken ==
    \A r \in Reqs :
        LoginOf(r) =>
            /\ req[r].resp.status \in {200, 201}
            /\ req[r].resp.is_new = (req[r].resp.status = 201)
            /\ Get(req[r].arg) \in DOMAIN db.devices
            /\ req[r].resp.token = Some(db.devices[Get(req[r].arg)])

\* the step of request r that opens and reads: a poster is read whole, a missing file is a 404
ReadStep(r) ==
    LET q == req[r]
        key == FilePath(Get(q.arg)) IN
    (q.pc = "body" /\ q.path = "/get_poster" /\ req'[r].pc # "body" /\ Truthy(q.arg)) =>
        IF IsFile(key)
        THEN req'[r].pc = "remove" /\ req'[r].content = FileAt(key)
        ELSE /\ req'[r].pc = "done"
             /\ key \notin fs.dirs =>
                   req'[r].resp.status = 404 /\ req'[r].resp.error = "File Not Found"

\* the step of request r that answers after the read: 200 with what was read
AnswerStep(r) ==
    (req[r].pc = "remove" /\ req'[r].pc = "done") =>
        req'[r].resp.status = 200 /\ req'[r].resp.image = req[r].content

(***************************************************************************)
(* C17, as stated: a get_poster for an existing file returns its content   *)
(* with 200 and deletes the file, so that it no longer exists when the     *)
(* request returns and a get_poster that then finds no file is answered    *)
(* 404 File Not Found; if the deletion fails the content is returned with  *)
(* 200 and a warning, and the file is in place when the request returns.   *)
(***************************************************************************)
C17_ServedOnce ==
    [][\A r \in Reqs :
          /\ ReadStep(r)
          /\ AnswerStep(r)
          /\ (req[r].pc = "remove" /\ req'[r].pc = "done") =>
                IF req'[r].resp.warning THEN req[r].key \in DOMAIN fs'.files
                ELSE req[r].key \notin DOMAIN fs'.files]_vars

(***************************************************************************)
(* C17, amended: as stated, except that when the deletion fails the file   *)
(* system is left as it is: the file is in place unless another            *)
(* get_poster removed it after this request had read it, in which case     *)
(* both requests return the content.                                       *)
(***************************************************************************)
C17_ServedAndDeleted ==
    [][\A r \in Reqs :
          /\ ReadStep(r)
          /\ AnswerStep(r)
          /\ (req[r].pc = "remove" /\ req'[r].pc = "done") =>
                IF req'[r].resp.warning THEN fs' = fs
                ELSE req[r].key \in DOMAIN fs.files /\ req[r].key \notin DOMAIN fs'.files]_vars

C17_Witness ==
    /\ req[1].pc = "done" /\ req[2].pc = "done"
    /\ req[1].key = POSTER_KEY /\ req[2].key = POSTER_KEY
    /\ req[1].resp.status = 200 /\ ~req[1].resp.warning
    /\ req[2].resp.status = 200 /\ req[2].resp.warning
    /\ req[1].resp.image = req[2].resp.image
    /\ POSTER_KEY \notin DOMAIN fs.files

IsUnder(key, dir) == Len(key) > Len(dir) /\ SubSeq(key, 1, Len(dir)) = dir

(***************************************************************************)
(* C19, as stated: for every filename a client sends, the path get_poster  *)
(* opens and removes is a descendant of DOWNLOAD_DIR, and no file outside  *)
(* of it is read or deleted.                                               *)
(***************************************************************************)
C19_StaysInDownloadDir ==
    /\ \A r \in Reqs :
          req[r].key # <<>> => IsUnder(req[r].key, FsKey(Path(Get(srv.config["DOWNLOAD_DIR"]))))
    /\ OUTSIDE_KEY \in DOMAIN fs.files

\* client r has the answer to the /get_poster it sent for its own filePath
Fetched(r) == req[r].pc = "done" /\ req[r].path = "/get_poster"

(***************************************************************************)
(* C21: in every interleaving of the generate and get_poster requests of   *)
(* two clients that ask for the same (name, artist), a client whose        *)
(* generate request returned 200 with filePath p gets status 200 from its  *)
(* own following get_poster for p, and the image it receives is the poster *)
(* generated with its own theme and options.                               *)
(***************************************************************************)
C21_OwnPosterRetrievable ==
    \A r \in Clients :
        Fetched(r) =>
            /\ req[r].resp.status = 200
            /\ req[r].resp.image = Encoded(Rendered(call[r]))
====
